---- MODULE Spec2Model ----
(***************************************************************************)
(* Clause database and reduce engine of CaDiCaL: 'Clause' (clause.hpp) and *)
(* 'Internal::reduce' with its helpers (reduce.cpp).  One reduce epoch is  *)
(* modelled call by call (pc), the solver around it by the operations that *)
(* create, assign, analyze and mark clauses.                               *)
(***************************************************************************)
EXTENDS Integers, Sequences, FiniteSets, TLC

VARIABLES
  heap,       \* clause storage: address -> Clause, DOMAIN = allocated cells
  clauses,    \* Internal::clauses, the registry (sequence of handles)
  watches,    \* the watcher lists (handles held by the propagator)
  trail,      \* Internal::trail (sequence of assigned literals)
  vtab,       \* Internal::var: variable -> [level, reason]
  stats,      \* Stats: conflicts, analyzed, reduced, reductions
  lim,        \* Limit: reduce, analyzed, conflicts_at_last_reduce, keptsize, keptglue
  inc,        \* Inc: reduce, redinc
  opts,       \* Options: reduce, reduceglue, reduceinit, reduceinc
  pc,         \* position inside Internal::reduce ("idle" outside of it)
  entry,      \* observation: state on entry to the running reduce ()
  mu,         \* observation: last run of mark_useless_redundant_clauses_as_garbage
  ret,        \* observation: [value, tick] of the last call of reducing ()
  failed,     \* observation: the assertions of the code that have failed
  uc          \* clause under a call of its own: [in, done] and the results

vars == <<heap, clauses, watches, trail, vtab, stats, lim, inc, opts, pc,
          entry, mu, ret, failed, uc>>

(***************************************************************************)
(* Bounds of the model.                                                    *)
(***************************************************************************)
MaxClauses == 2      \* clauses alive at once
MaxTrail == 1        \* assigned literals
MaxLevel == 1        \* decision levels 0..MaxLevel
MaxGlue == 2         \* glue given to a learned clause: 1..MaxGlue
MaxAnalyzed == 1     \* cap of stats.analyzed
MaxReductions == 2   \* cap of stats.reductions
MaxConflicts == 3    \* cap of stats.conflicts
MaxInc == 3          \* initial inc.reduce in 0..MaxInc, inc.redinc in 0..MaxInc
MaxShrink == 4       \* sizes 2..MaxShrink, pos and glue 0..MaxShrink+1 below
MaxBlocks == 5       \* clause handles at 16, 32, .. 16 * MaxBlocks

LD_MAX_GLUE == 25    \* width of the glue bit field
MAX_GLUE == 2 ^ (LD_MAX_GLUE - 1) - 1

\* object sizes of the LP64 build
SizeofAnalyzed == 8  \* sizeof _analyzed (long)
SizeofPos == 4       \* sizeof _pos (int)
SizeofInt == 4       \* sizeof (int), a literal
SizeofClause == 40   \* sizeof (Clause)

NoClause == 0        \* the null handle
Absent == -1         \* content of an optional field that was not allocated

Addr == 1 .. (2 * MaxClauses)

Vars == 1 .. 3

\* the calls of new_clause offered: literals (deduplicated, tautology free,
\* ordered by lit_less_than), redundant, glue
Inputs ==
  { <<ls, red, g>> \in { <<1, -2>>, <<-1, 2, 3>> } \X BOOLEAN \X (1 .. MaxGlue) :
      /\ (red /\ Len(ls) > 2) \/ g = 1
      /\ red \/ Len(ls) = 2 }

\* the calls of new_clause offered where clauses are shrunk: also a long
\* irredundant clause, and a learned clause with as many levels as literals
LifeInputs ==
  { <<ls, red, g>> \in { <<1, -2>>, <<-1, 2, 3>> } \X BOOLEAN \X (1 .. (MaxGlue + 1)) :
      /\ g <= Len(ls)
      /\ (red /\ Len(ls) > 2) \/ g = 1 }

\* the literals offered to the trail
AssignLits == { 1, 2 }

Abs(l) == IF l < 0 THEN -l ELSE l

Range(s) == { s[i] : i \in DOMAIN s }

Max(a, b) == IF a > b THEN a ELSE b

(***************************************************************************)
(* clause.hpp                                                              *)
(***************************************************************************)

\* collect () forgetting the reason flag
collect_garbage_only(c) == c.garbage

\* Clause::collect
collect(c) == ~c.reason /\ c.garbage

\* Clause::analyzed () accessor
analyzed(c) == c.analyzed

\* 'assert (have.analyzed)' of the accessor
analyzed_assert(c) == c.have_analyzed

\* analyzed_earlier ordering the youngest first
analyzed_later(a, b) == analyzed(a) > analyzed(b)

\* struct analyzed_earlier
analyzed_earlier(a, b) == analyzed(a) < analyzed(b)

\* update_after_shrinking resetting pos only when it is beyond size
update_after_shrinking_gt(c) ==
  LET c1 == IF c.have_pos /\ c.pos > c.size THEN [c EXCEPT !.pos = 2] ELSE c
  IN  IF c1.glue > c1.size THEN [c1 EXCEPT !.glue = c1.size] ELSE c1

\* update_after_shrinking without the clamp of glue
update_after_shrinking_no_clamp(c) ==
  IF c.have_pos /\ c.pos >= c.size THEN [c EXCEPT !.pos = 2] ELSE c

\* Clause::update_after_shrinking
update_after_shrinking(c) ==
  LET c1 == IF c.have_pos /\ c.pos >= c.size THEN [c EXCEPT !.pos = 2] ELSE c
  IN  IF c1.glue > c1.size THEN [c1 EXCEPT !.glue = c1.size] ELSE c1

\* offset () counting the fields that are present
offset_of_present(c) ==
  LET res0 == 0
      res1 == IF c.have_pos THEN res0 + SizeofPos ELSE res0
  IN  IF c.have_analyzed THEN res1 + SizeofAnalyzed ELSE res1

\* Clause::offset
offset(c) ==
  LET res0 == 0
      res1 == IF ~c.have_pos THEN res0 + SizeofPos ELSE res0
  IN  IF ~c.have_analyzed THEN res1 + SizeofAnalyzed ELSE res1

\* Clause::bytes
bytes(c) == SizeofClause + (c.size - 2) * SizeofInt - offset(c)

\* Clause::start, this the handle of the clause
start(this, c) == offset(c) + this

(***************************************************************************)
(* reduce.cpp                                                              *)
(***************************************************************************)

\* reducing () firing only after the limit has been passed
reducing_strict ==
  IF ~opts.reduce THEN FALSE ELSE stats.conflicts > lim.reduce

\* Internal::reducing
reducing ==
  IF ~opts.reduce THEN FALSE ELSE stats.conflicts >= lim.reduce

\* less_usefull preferring to discard small glue
less_usefull_small_glue(c, d) ==
  IF c.glue < d.glue THEN TRUE
  ELSE IF c.glue > d.glue THEN FALSE
  ELSE analyzed_earlier(c, d)

\* less_usefull without the tie-break by time stamp
less_usefull_glue_only(c, d) ==
  IF c.glue > d.glue THEN TRUE
  ELSE FALSE

\* struct less_usefull
less_usefull(c, d) ==
  IF c.glue > d.glue THEN TRUE
  ELSE IF c.glue < d.glue THEN FALSE
  ELSE analyzed_earlier(c, d)

\* the loop of protect_reasons flagging the reasons at level 0 instead
protect_from_level_zero(h, i) ==
  [a \in DOMAIN h |->
     IF \E j \in i .. Len(trail) :
          /\ vtab[Abs(trail[j])].level = 0
          /\ vtab[Abs(trail[j])].reason = a
       THEN [h[a] EXCEPT !.reason = TRUE] ELSE h[a]]

\* Internal::protect_reasons, the loop from trail position i on
RECURSIVE protect_from(_, _)
protect_from(h, i) ==
  IF i > Len(trail) THEN h
  ELSE LET v == vtab[Abs(trail[i])]
       IN  IF v.level = 0 \/ v.reason = NoClause THEN protect_from(h, i + 1)
           ELSE protect_from([h EXCEPT ![v.reason].reason = TRUE], i + 1)

\* protect_reasons flagging nothing
protect_reasons_none(h) == h

protect_reasons(h) == protect_from(h, 1)

\* Internal::unprotect_reasons, the loop from trail position i on; ok turns
\* FALSE when 'assert (v.reason->reason)' fails
RECURSIVE unprotect_from(_, _, _)
unprotect_from(h, ok, i) ==
  IF i > Len(trail) THEN [heap |-> h, ok |-> ok]
  ELSE LET v == vtab[Abs(trail[i])]
       IN  IF v.level = 0 \/ v.reason = NoClause
             THEN unprotect_from(h, ok, i + 1)
             ELSE unprotect_from([h EXCEPT ![v.reason].reason = FALSE],
                                 ok /\ v.reason \in DOMAIN h /\ h[v.reason].reason,
                                 i + 1)

\* unprotect_reasons skipping the first trail entry
unprotect_reasons_from_second(h) == unprotect_from(h, TRUE, 2)

unprotect_reasons(h) == unprotect_from(h, TRUE, 1)

\* mark_garbage (h, a): sets the garbage bit
mark_garbage(h, a) == [h EXCEPT ![a].garbage = TRUE]

\* the candidate test without the check of the reason flag
candidate_reasons_too(c) ==
  IF ~c.redundant THEN FALSE
  ELSE IF c.blocked # 0 THEN FALSE
  ELSE IF c.garbage THEN FALSE
  ELSE IF ~c.have_analyzed THEN FALSE
  ELSE IF analyzed(c) > lim.analyzed THEN FALSE
  ELSE TRUE

\* the candidate test without the check of have.analyzed
candidate_unchecked(c) ==
  IF ~c.redundant THEN FALSE
  ELSE IF c.blocked # 0 THEN FALSE
  ELSE IF c.reason THEN FALSE
  ELSE IF c.garbage THEN FALSE
  ELSE IF analyzed(c) > lim.analyzed THEN FALSE
  ELSE TRUE

\* the candidate test without the check of the analyzed limit
candidate_any_age(c) ==
  IF ~c.redundant THEN FALSE
  ELSE IF c.blocked # 0 THEN FALSE
  ELSE IF c.reason THEN FALSE
  ELSE IF c.garbage THEN FALSE
  ELSE IF ~c.have_analyzed THEN FALSE
  ELSE TRUE

\* the candidate test of mark_useless_redundant_clauses_as_garbage
candidate(c) ==
  IF ~c.redundant THEN FALSE
  ELSE IF c.blocked # 0 THEN FALSE
  ELSE IF c.reason THEN FALSE
  ELSE IF c.garbage THEN FALSE
  ELSE IF ~c.have_analyzed THEN FALSE
  ELSE IF analyzed(c) > lim.analyzed THEN FALSE
  ELSE TRUE

\* the candidate test gets as far as calling the accessor analyzed ()
candidate_reads(c) ==
  IF ~c.redundant THEN FALSE
  ELSE IF c.blocked # 0 THEN FALSE
  ELSE IF c.reason THEN FALSE
  ELSE IF c.garbage THEN FALSE
  ELSE IF ~c.have_analyzed THEN FALSE
  ELSE TRUE

\* less_usefull gets as far as calling analyzed_earlier, which calls the
\* accessor on both clauses
less_usefull_reads(c, d) ==
  IF c.glue > d.glue THEN FALSE
  ELSE IF c.glue < d.glue THEN FALSE
  ELSE TRUE

\* the stack collected by the first loop, in registry order
collect_stack(h) == SelectSeq(clauses, LAMBDA a : candidate(h[a]))

\* the clauses whose time stamp the first loop reads
test_reads(h) == { a \in Range(clauses) : candidate_reads(h[a]) }

\* the clauses whose time stamp std::sort may read: those it may compare
\* with another entry of the stack under a comparator that calls the accessor
sort_reads(h, s) ==
  { a \in Range(s) :
      \E b \in Range(s) \ {a} :
        IF opts.reduceglue THEN less_usefull_reads(h[a], h[b]) ELSE TRUE }

Perms(s) ==
  { p \in [1 .. Len(s) -> Range(s)] :
      \A x \in Range(s) : \E i \in 1 .. Len(s) : p[i] = x }

\* the results std::sort may produce for the stack s: every permutation in
\* which no element is less (under the comparator) than an earlier one
sort_less_usefull(h, s) ==
  { p \in Perms(s) :
      \A i, j \in 1 .. Len(s) : i < j => ~less_usefull(h[p[j]], h[p[i]]) }

sort_analyzed_earlier(h, s) ==
  { p \in Perms(s) :
      \A i, j \in 1 .. Len(s) : i < j => ~analyzed_earlier(h[p[j]], h[p[i]]) }

sort_stack(h, s) ==
  IF opts.reduceglue THEN sort_less_usefull(h, s)
  ELSE sort_analyzed_earlier(h, s)

\* the target rounded up
target_of_ceil(s) == (Len(s) + 1) \div 2

\* stack.begin () + stack.size ()/2
target_of(s) == Len(s) \div 2

\* the marking loop: positions i .. target of the sorted stack
RECURSIVE mark_loop(_, _, _, _)
mark_loop(acc, s, i, target) ==
  IF i > target THEN acc
  ELSE mark_loop([heap    |-> mark_garbage(acc.heap, s[i]),
                  reduced |-> acc.reduced + 1,
                  marked  |-> Append(acc.marked, s[i])],
                 s, i + 1, target)

\* the kept loop: positions i .. end of the sorted stack
RECURSIVE kept_loop(_, _, _, _)
kept_loop(acc, h, s, i) ==
  IF i > Len(s) THEN acc
  ELSE LET c == h[s[i]]
           ks == IF c.size > acc.keptsize THEN c.size ELSE acc.keptsize
           kg == IF c.glue > acc.keptglue THEN c.glue ELSE acc.keptglue
       IN  kept_loop([keptsize |-> ks, keptglue |-> kg], h, s, i + 1)

\* the kept loop started from the values of the previous epoch
kept_start_stale(l) == [keptsize |-> l.keptsize, keptglue |-> l.keptglue]

\* lim.keptsize = lim.keptglue = 0 before the kept loop
kept_start(l) == [keptsize |-> 0, keptglue |-> 0]

\* the increments with redinc decremented down to 0
inc_after_to_zero(i) ==
  LET i1 == [i EXCEPT !.reduce = i.reduce + i.redinc]
  IN  IF i1.redinc >= 1 THEN [i1 EXCEPT !.redinc = i1.redinc - 1] ELSE i1

\* the increments with inc.reduce left as it was
inc_after_no_growth(i) ==
  IF i.redinc > 1 THEN [i EXCEPT !.redinc = i.redinc - 1] ELSE i

\* the post-epoch update of the increments (inc.reduce, inc.redinc)
inc_after(i) ==
  LET i1 == [i EXCEPT !.reduce = i.reduce + i.redinc]
  IN  IF i1.redinc > 1 THEN [i1 EXCEPT !.redinc = i1.redinc - 1] ELSE i1

\* the limits computed from the increment as it was before it grew
lim_after_stale(l, i) ==
  [l EXCEPT !.reduce = stats.conflicts + inc.reduce,
            !.analyzed = stats.analyzed,
            !.conflicts_at_last_reduce = stats.conflicts]

\* the post-epoch update of the limits, i the increments already updated
lim_after(l, i) ==
  [l EXCEPT !.reduce = stats.conflicts + i.reduce,
            !.analyzed = stats.analyzed,
            !.conflicts_at_last_reduce = stats.conflicts]

(***************************************************************************)
(* The collaborators of reduce.cpp: clause creation, the satisfied-clause  *)
(* marker and the relocating collector.                                    *)
(***************************************************************************)

\* new_clause: the record written for literals ls; long redundant clauses
\* are extended (analyzed and pos present)
new_clause(ls, red, glue) ==
  LET ext == red /\ Len(ls) > 2
  IN  [lits |-> ls, size |-> Len(ls), redundant |-> red, garbage |-> FALSE,
       reason |-> FALSE, moved |-> FALSE, copy |-> NoClause,
       glue |-> IF ext THEN glue ELSE 0, blocked |-> 0,
       have_analyzed |-> ext, have_pos |-> ext,
       analyzed |-> IF ext THEN 0 ELSE Absent,
       pos |-> IF ext THEN 2 ELSE Absent]

\* the allocator: the lowest free address
Lowest(S) == CHOOSE x \in S : \A y \in S : x <= y

RECURSIVE LowestK(_, _)
LowestK(S, k) == IF k = 0 THEN <<>> ELSE <<Lowest(S)>> \o LowestK(S \ {Lowest(S)}, k - 1)

\* a literal is fixed to true: assigned on the trail at level 0
fixed_true(l) == l \in Range(trail) /\ vtab[Abs(l)].level = 0

\* mark_satisfied_clauses_as_garbage
mark_satisfied(h) ==
  [a \in DOMAIN h |->
     IF a \in Range(clauses) /\ ~h[a].garbage
        /\ \E k \in 1 .. h[a].size : fixed_true(h[a].lits[k])
       THEN mark_garbage(h, a)[a] ELSE h[a]]

\* collector, copy phase: survivors in registry order, their new cells, and
\* the heap holding both the copies and the old cells (moved, forwarding)
survivors(h) == SelectSeq(clauses, LAMBDA a : ~collect(h[a]))

copy_clause(c) == c

copy_phase(h) ==
  LET surv == survivors(h)
      new  == LowestK(Addr \ DOMAIN h, Len(surv))
      to   == [a \in Range(surv) |->
                 new[CHOOSE k \in 1 .. Len(surv) : surv[k] = a]]
      from == [b \in Range(new) |->
                 surv[CHOOSE k \in 1 .. Len(surv) : new[k] = b]]
  IN  [b \in DOMAIN h \cup Range(new) |->
         IF b \in Range(new) THEN copy_clause(h[from[b]])
         ELSE IF b \in Range(surv)
           THEN [h[b] EXCEPT !.moved = TRUE, !.copy = to[b]]
         ELSE h[b]]

\* collector, rewrite phase: a handle whose clause moved follows the
\* forwarding handle.  A handle left dangling by an earlier collection (a
\* reason at level 0) points to freed storage: what is read there is undefined,
\* so it may stay or be replaced by any address
forward(h, q) ==
  IF q = NoClause THEN {q}
  ELSE IF q \in DOMAIN h THEN {IF h[q].moved THEN h[q].copy ELSE q}
  ELSE {q} \cup Addr

update_reason_references(h, vt) ==
  { nt \in [Vars -> [level : 0 .. MaxLevel, reason : Addr \cup {NoClause}]] :
      \A x \in Vars : /\ nt[x].level = vt[x].level
                      /\ nt[x].reason \in forward(h, vt[x].reason) }

\* the watchers visitor: watches of collected clauses are flushed, the
\* others follow the forwarding handle
flush_watches(h, ws) ==
  LET kept == SelectSeq(ws, LAMBDA q : ~collect(h[q]))
  IN  [k \in 1 .. Len(kept) |-> h[kept[k]].copy]

update_registry(h, surv) == [k \in 1 .. Len(surv) |-> h[surv[k]].copy]

\* collector, release phase: moved and collectable cells are freed
release_phase(h) ==
  LET keep == { a \in DOMAIN h : ~h[a].moved /\ ~collect(h[a]) }
  IN  [a \in keep |-> h[a]]

(***************************************************************************)
(* State after construction.                                               *)
(***************************************************************************)
NoEntry == [active |-> FALSE]
NoRun == [active |-> FALSE]
NoShrink == [done |-> FALSE]

InitCommon ==
  /\ heap = [a \in {} |-> 0]
  /\ clauses = <<>>
  /\ watches = <<>>
  /\ trail = <<>>
  /\ vtab = [x \in Vars |-> [level |-> 0, reason |-> NoClause]]
  /\ stats = [conflicts |-> 0, analyzed |-> 0, reduced |-> 0, reductions |-> 0]
  /\ pc = "idle"
  /\ entry = NoEntry
  /\ mu = NoRun
  /\ ret = [value |-> FALSE, tick |-> FALSE]
  /\ failed = {}

\* the counters start from the options: the first limit and the increment
\* from reduceinit, the growth of the increment from reduceinc
InitLimits ==
  /\ lim = [reduce |-> opts.reduceinit, analyzed |-> 0,
            conflicts_at_last_reduce |-> 0, keptsize |-> 0, keptglue |-> 0]
  /\ inc = [reduce |-> opts.reduceinit, redinc |-> opts.reduceinc]

Init ==
  /\ InitCommon
  /\ opts \in [reduce : {TRUE}, reduceglue : BOOLEAN, reduceinit : {1},
               reduceinc : {1}]
  /\ InitLimits
  /\ uc = NoShrink

\* the scheduler alone: any option values, no clauses
InitSched ==
  /\ InitCommon
  /\ opts \in [reduce : BOOLEAN, reduceglue : {FALSE},
               reduceinit : 0 .. MaxInc, reduceinc : 0 .. MaxInc]
  /\ InitLimits
  /\ uc = NoShrink

\* the clauses handed to update_after_shrinking: an extended or plain clause
\* whose size was reduced by the caller
ShrunkClauses ==
  { [lits |-> [k \in 1 .. n |-> k], size |-> n, redundant |-> hp,
     garbage |-> FALSE, reason |-> FALSE, moved |-> FALSE, copy |-> NoClause,
     glue |-> g, blocked |-> 0, have_analyzed |-> hp, have_pos |-> hp,
     analyzed |-> IF hp THEN 0 ELSE Absent,
     pos |-> IF hp THEN p ELSE Absent] :
       n \in 2 .. MaxShrink, hp \in BOOLEAN, g \in 0 .. (MaxShrink + 1),
       p \in 2 .. (MaxShrink + 1) }

InitShrink ==
  /\ InitCommon
  /\ opts = [reduce |-> TRUE, reduceglue |-> FALSE, reduceinit |-> 1,
             reduceinc |-> 1]
  /\ InitLimits
  /\ \E c \in ShrunkClauses : uc = [done |-> FALSE, in |-> c, out |-> c]

\* the clauses whose layout is computed: any size and presence profile
LayoutClauses ==
  { [lits |-> [k \in 1 .. n |-> k], size |-> n, redundant |-> ha,
     garbage |-> FALSE, reason |-> FALSE, moved |-> FALSE, copy |-> NoClause,
     glue |-> 0, blocked |-> 0, have_analyzed |-> ha, have_pos |-> hp,
     analyzed |-> IF ha THEN 0 ELSE Absent,
     pos |-> IF hp THEN 2 ELSE Absent] :
       n \in 2 .. MaxShrink, ha \in BOOLEAN, hp \in BOOLEAN }

\* the handles of the clauses whose layout is computed
Handles == { 16 * k : k \in 1 .. MaxBlocks }

InitLayout ==
  /\ InitCommon
  /\ opts = [reduce |-> TRUE, reduceglue |-> FALSE, reduceinit |-> 1,
             reduceinc |-> 1]
  /\ InitLimits
  /\ \E c \in LayoutClauses, this \in Handles :
       uc = [done |-> FALSE, in |-> c, this |-> this]

(***************************************************************************)
(* The solver around reduce (): only while no reduce is running.           *)
(***************************************************************************)
Live == Range(clauses)

NewClause(ls, red, glue) ==
  /\ pc = "idle"
  /\ Len(clauses) < MaxClauses
  /\ LET a == Lowest(Addr \ DOMAIN heap)
     IN  /\ heap' = [b \in DOMAIN heap \cup {a} |->
                       IF b = a THEN new_clause(ls, red, glue) ELSE heap[b]]
         /\ clauses' = Append(clauses, a)
         /\ watches' = Append(watches, a)
  /\ UNCHANGED <<trail, vtab, stats, lim, inc, opts, pc, entry, mu, ret, failed, uc>>

MarkGarbage(a) ==
  /\ pc = "idle"
  /\ a \in Live
  /\ heap' = mark_garbage(heap, a)
  /\ UNCHANGED <<clauses, watches, trail, vtab, stats, lim, inc, opts, pc,
                 entry, mu, ret, failed, uc>>

\* search_assign: literal l becomes true at the given level, forced by the
\* clause r (or decided / unit: r = NoClause); a clause forces one literal
Assign(l, level, r) ==
  /\ pc = "idle"
  /\ Len(trail) < MaxTrail
  /\ \A i \in 1 .. Len(trail) : Abs(trail[i]) # Abs(l)
  /\ Len(trail) > 0 => vtab[Abs(trail[Len(trail)])].level <= level
  /\ r # NoClause =>
       /\ r \in Live
       /\ l \in Range(heap[r].lits)
       /\ \A i \in 1 .. Len(trail) : vtab[Abs(trail[i])].reason # r
  /\ trail' = Append(trail, l)
  /\ vtab' = [vtab EXCEPT ![Abs(l)] = [level |-> level, reason |-> r]]
  /\ UNCHANGED <<heap, clauses, watches, stats, lim, inc, opts, pc, entry, mu,
                 ret, failed, uc>>

\* conflict analysis resolves with clause a: its time stamp is bumped
Analyze(a) ==
  /\ pc = "idle"
  /\ a \in Live
  /\ heap[a].have_analyzed
  /\ stats.analyzed < MaxAnalyzed
  /\ stats' = [stats EXCEPT !.analyzed = stats.analyzed + 1]
  /\ heap' = [heap EXCEPT ![a].analyzed = stats.analyzed + 1]
  /\ UNCHANGED <<clauses, watches, trail, vtab, lim, inc, opts, pc, entry, mu,
                 ret, failed, uc>>

\* the propagator records a blocking literal in clause a
Block(a) ==
  /\ pc = "idle"
  /\ a \in Live
  /\ heap[a].have_analyzed
  /\ heap[a].blocked = 0
  /\ heap' = [heap EXCEPT ![a].blocked = heap[a].lits[1]]
  /\ UNCHANGED <<clauses, watches, trail, vtab, stats, lim, inc, opts, pc,
                 entry, mu, ret, failed, uc>>

\* on-the-fly strengthening removes the last literal of clause a and calls
\* the fix-up; a clause is never shrunk below two literals
Shrink(a) ==
  /\ pc = "idle"
  /\ a \in Live
  /\ heap[a].size > 2
  /\ heap' = [heap EXCEPT ![a] =
                update_after_shrinking(
                  [heap[a] EXCEPT !.size = heap[a].size - 1,
                                  !.lits = SubSeq(heap[a].lits, 1, heap[a].size - 1)])]
  /\ UNCHANGED <<clauses, watches, trail, vtab, stats, lim, inc, opts, pc,
                 entry, mu, ret, failed, uc>>

Conflict ==
  /\ pc = "idle"
  /\ stats.conflicts < MaxConflicts
  /\ stats' = [stats EXCEPT !.conflicts = stats.conflicts + 1]
  /\ UNCHANGED <<heap, clauses, watches, trail, vtab, lim, inc, opts, pc,
                 entry, mu, ret, failed, uc>>

\* a call of reducing (): the result is observed in ret
Reducing ==
  /\ pc = "idle"
  /\ ret' = [value |-> reducing, tick |-> ~ret.tick]
  /\ UNCHANGED <<heap, clauses, watches, trail, vtab, stats, lim, inc, opts,
                 pc, entry, mu, failed, uc>>

(***************************************************************************)
(* Internal::reduce, one action per call it makes.                         *)
(***************************************************************************)
ReduceBegin ==
  /\ pc = "idle"
  /\ stats.reductions < MaxReductions
  /\ stats' = [stats EXCEPT !.reductions = stats.reductions + 1]
  /\ entry' = [active |-> TRUE, heap |-> heap, vtab |-> vtab,
               clauses |-> clauses, watches |-> watches, inc |-> inc, lim |-> lim, stats |-> stats,
               atgc |-> heap]
  /\ pc' = "protect"
  /\ UNCHANGED <<heap, clauses, watches, trail, vtab, lim, inc, opts, mu, ret,
                 failed, uc>>

ProtectReasons ==
  /\ pc = "protect"
  /\ heap' = protect_reasons(heap)
  /\ pc' = "satisfied"
  /\ UNCHANGED <<clauses, watches, trail, vtab, stats, lim, inc, opts, entry,
                 mu, ret, failed, uc>>

MarkSatisfied ==
  /\ pc = "satisfied"
  /\ heap' = mark_satisfied(heap)
  /\ pc' = "useless"
  /\ UNCHANGED <<clauses, watches, trail, vtab, stats, lim, inc, opts, entry,
                 mu, ret, failed, uc>>

MarkUseless ==
  /\ pc = "useless"
  /\ \E s \in sort_stack(heap, collect_stack(heap)) :
       LET target == target_of(s)
           m == mark_loop([heap |-> heap, reduced |-> stats.reduced,
                           marked |-> <<>>], s, 1, target)
           k == kept_loop(kept_start(lim), m.heap, s, target + 1)
       IN  /\ heap' = m.heap
           /\ stats' = [stats EXCEPT !.reduced = m.reduced]
           /\ lim' = [lim EXCEPT !.keptsize = k.keptsize,
                                 !.keptglue = k.keptglue]
           /\ mu' = [active |-> TRUE, pre |-> heap, stack |-> s,
                     marked |-> m.marked, reduced |-> stats.reduced,
                     limit |-> lim.analyzed,
                     reads |-> test_reads(heap) \cup sort_reads(heap, s)]
           /\ failed' =
                IF \A a \in test_reads(heap) \cup sort_reads(heap, s) :
                     analyzed_assert(heap[a])
                  THEN failed ELSE failed \cup {"analyzed"}
  /\ pc' = "collect"
  /\ UNCHANGED <<clauses, watches, trail, vtab, inc, opts, entry, ret, uc>>

\* the collection after the reasons were unprotected
GarbageCollectionUnprotected ==
  /\ pc = "collect"
  /\ LET h1 == unprotect_reasons(heap).heap
         h2 == copy_phase(h1)
         surv == survivors(h1)
     IN  /\ clauses' = update_registry(h2, surv)
         /\ vtab' \in update_reason_references(h2, vtab)
         /\ watches' = flush_watches(h2, watches)
         /\ heap' = release_phase(h2)
  /\ mu' = NoRun
  /\ entry' = [entry EXCEPT !.atgc = heap]
  /\ pc' = "unprotect"
  /\ UNCHANGED <<trail, stats, lim, inc, opts, ret, failed, uc>>

GarbageCollection ==
  /\ pc = "collect"
  /\ LET h2 == copy_phase(heap)
         surv == survivors(heap)
     IN  /\ clauses' = update_registry(h2, surv)
         /\ vtab' \in update_reason_references(h2, vtab)
         /\ watches' = flush_watches(h2, watches)
         /\ heap' = release_phase(h2)
  /\ mu' = NoRun
  /\ entry' = [entry EXCEPT !.atgc = heap]
  /\ pc' = "unprotect"
  /\ UNCHANGED <<trail, stats, lim, inc, opts, ret, failed, uc>>

UnprotectReasons ==
  /\ pc = "unprotect"
  /\ LET u == unprotect_reasons(heap)
     IN  /\ heap' = u.heap
         /\ failed' = IF u.ok THEN failed ELSE failed \cup {"unprotect_reasons"}
  /\ pc' = "limits"
  /\ UNCHANGED <<clauses, watches, trail, vtab, stats, lim, inc, opts, entry,
                 mu, ret, uc>>

UpdateLimits ==
  /\ pc = "limits"
  /\ inc' = inc_after(inc)
  /\ lim' = lim_after(lim, inc_after(inc))
  /\ pc' = "stop"
  /\ UNCHANGED <<heap, clauses, watches, trail, vtab, stats, opts, entry, mu,
                 ret, failed, uc>>

ReduceReturn ==
  /\ pc = "stop"
  /\ pc' = "idle"
  /\ entry' = NoEntry
  /\ UNCHANGED <<heap, clauses, watches, trail, vtab, stats, lim, inc, opts,
                 mu, ret, failed, uc>>

Reduce ==
  \/ ReduceBegin
  \/ ProtectReasons
  \/ MarkSatisfied
  \/ MarkUseless
  \/ GarbageCollection
  \/ UnprotectReasons
  \/ UpdateLimits
  \/ ReduceReturn

Next ==
  \/ \E in \in Inputs : NewClause(in[1], in[2], in[3])
  \/ \E a \in Addr : MarkGarbage(a)
  \/ \E l \in AssignLits, level \in 0 .. MaxLevel, r \in Addr \cup {NoClause} :
       Assign(l, level, r)
  \/ \E a \in Addr : Analyze(a)
  \/ \E a \in Addr : Block(a)
  \/ Reduce

Spec == Init /\ [][Next]_vars

\* the reduce scheduler under conflicts
NextSched ==
  \/ Conflict
  \/ Reducing
  \/ Reduce

SpecSched == InitSched /\ [][NextSched]_vars

\* a call of update_after_shrinking on the clause uc.in
ShrinkFixup ==
  /\ uc.done = FALSE
  /\ uc' = [uc EXCEPT !.done = TRUE, !.out = update_after_shrinking(uc.in)]
  /\ UNCHANGED <<heap, clauses, watches, trail, vtab, stats, lim, inc, opts,
                 pc, entry, mu, ret, failed>>

NextShrink == ShrinkFixup

SpecShrink == InitShrink /\ [][NextShrink]_vars

\* the calls of offset (), bytes () and start () on the clause uc.in at the
\* handle uc.this
Layout ==
  /\ uc.done = FALSE
  /\ uc' = [done |-> TRUE, in |-> uc.in, this |-> uc.this,
            offset |-> offset(uc.in), bytes |-> bytes(uc.in),
            start |-> start(uc.this, uc.in)]
  /\ UNCHANGED <<heap, clauses, watches, trail, vtab, stats, lim, inc, opts,
                 pc, entry, mu, ret, failed>>

NextLayout == Layout

SpecLayout == InitLayout /\ [][NextLayout]_vars

\* the life of clauses: creation, shrinking, marking, reduction
NextLife ==
  \/ \E in \in LifeInputs : NewClause(in[1], in[2], in[3])
  \/ \E a \in Addr : Shrink(a)
  \/ \E a \in Addr : MarkGarbage(a)
  \/ \E l \in AssignLits, level \in 0 .. MaxLevel, r \in Addr \cup {NoClause} :
       Assign(l, level, r)
  \/ Reduce

SpecLife == Init /\ [][NextLife]_vars

(***************************************************************************)
(* The reduce scheduler (SpecSched).                                       *)
(***************************************************************************)

\* the epochs whose limits have been updated
EpochsDone ==
  IF pc \in {"idle", "stop"} THEN stats.reductions ELSE stats.reductions - 1

\* C7 as claimed: when reduce () returns, lim.reduce is the conflict count
\* plus the value inc.reduce had on entry, before it grew by inc.redinc
C7_LimitFromEntryIncrement ==
  pc = "stop" => lim.reduce = stats.conflicts + entry.inc.reduce

\* C7 as amended: when reduce () returns, lim.reduce is the conflict count
\* plus the grown increment, the entry value of inc.reduce plus the entry
\* value of inc.redinc
C7_LimitFromGrownIncrement ==
  pc = "stop" =>
    /\ lim.reduce = stats.conflicts + entry.inc.reduce + entry.inc.redinc
    /\ lim.reduce = stats.conflicts + inc.reduce

C7_Witness ==
  /\ pc = "stop"
  /\ entry.inc.redinc >= 1
  /\ stats.conflicts >= 1
  /\ lim.reduce > stats.conflicts + entry.inc.reduce

\* C8: each reduce () grows inc.reduce by the entry value of inc.redinc and
\* then decrements inc.redinc iff it was greater than 1; started at 1 or more,
\* inc.redinc is max (1, start - epochs): never below 1, at 1 after start - 1
\* epochs and from then on, and inc.reduce grows strictly in every epoch
C8_IncrementDecay ==
  /\ pc = "stop" =>
       /\ inc.reduce = entry.inc.reduce + entry.inc.redinc
       /\ inc.redinc = IF entry.inc.redinc > 1 THEN entry.inc.redinc - 1
                       ELSE entry.inc.redinc
       /\ opts.reduceinc >= 1 => inc.reduce > entry.inc.reduce
  /\ opts.reduceinc >= 1 =>
       /\ inc.redinc >= 1
       /\ inc.redinc = Max(1, opts.reduceinc - EpochsDone)

C8_Witness ==
  /\ pc = "stop"
  /\ opts.reduceinc > 2
  /\ entry.inc.redinc = 2
  /\ inc.redinc = 1

\* C9: a call of reducing () returns TRUE exactly when the reduce option is
\* set and conflicts >= lim.reduce, FALSE whenever the option is off, and
\* changes nothing else
C9_ReducingResult ==
  [][ret'.tick # ret.tick =>
       /\ ret'.value = (opts.reduce /\ stats.conflicts >= lim.reduce)
       /\ ~opts.reduce => ret'.value = FALSE
       /\ UNCHANGED <<heap, clauses, watches, trail, vtab, stats, lim, inc,
                      opts, pc>>]_vars

C9_Witness ==
  /\ ret.tick
  /\ ret.value
  /\ opts.reduce
  /\ stats.conflicts = lim.reduce
  /\ stats.reductions >= 1

(***************************************************************************)
(* update_after_shrinking (SpecShrink).                                    *)
(***************************************************************************)

\* what C10 says the call does to pos and glue, all else unchanged
ShrinkEffect ==
  uc.out = [uc.in EXCEPT
              !.pos = IF uc.in.have_pos /\ uc.in.pos >= uc.in.size THEN 2
                      ELSE uc.in.pos,
              !.glue = IF uc.in.glue > uc.in.size THEN uc.in.size
                       ELSE uc.in.glue]

\* C10 as claimed: after update_after_shrinking on a clause of size >= 2, pos
\* is reset to 2 if present and >= size, glue is clamped to size, all else is
\* unchanged, and then glue <= size and a present pos is below size
C10_ShrinkFixupPosBelowSize ==
  uc.done =>
    /\ ShrinkEffect
    /\ uc.out.glue <= uc.out.size
    /\ uc.out.have_pos => uc.out.pos < uc.out.size

\* C10 as amended: the same effect and glue <= size; a present pos is below
\* size when size > 2, and equals size (2) when the clause has two literals
C10_ShrinkFixup ==
  uc.done =>
    /\ ShrinkEffect
    /\ uc.out.glue <= uc.out.size
    /\ uc.out.have_pos /\ uc.out.size > 2 => uc.out.pos < uc.out.size
    /\ uc.out.have_pos /\ uc.out.size = 2 => uc.out.pos = 2

C10_Witness ==
  /\ uc.done
  /\ uc.in.have_pos
  /\ uc.in.size = 3
  /\ uc.in.pos = 3
  /\ uc.in.glue = 4
  /\ uc.out.pos = 2
  /\ uc.out.glue = 3

(***************************************************************************)
(* The reduce epoch (Spec).                                                *)
(***************************************************************************)

\* the candidate conditions of the reduction policy, on clause c under the
\* limit l
IsCandidate(c, l) ==
  /\ c.redundant
  /\ c.blocked = 0
  /\ ~c.reason
  /\ ~c.garbage
  /\ c.have_analyzed
  /\ c.analyzed <= l

\* the candidates of the observed run of the policy, and those it marked
RunCandidates ==
  { a \in Range(clauses) : IsCandidate(mu.pre[a], mu.limit) }

RunMarked == Range(mu.marked)

RunKept == RunCandidates \ RunMarked

SameLits(c, d) == c.size = d.size /\ c.lits = d.lits

MaxOf(S) == IF S = {} THEN 0 ELSE CHOOSE x \in S : \A y \in S : y <= x

\* the trail variables assigned at level >= 1 with a reason on entry
ReasonVars ==
  { x \in Vars : /\ \E i \in 1 .. Len(trail) : Abs(trail[i]) = x
                 /\ vtab[x].level >= 1
                 /\ entry.vtab[x].reason # NoClause }

\* the trail variables holding a reason handle
HeldVars ==
  { x \in Vars : /\ \E i \in 1 .. Len(trail) : Abs(trail[i]) = x
                 /\ vtab[x].reason # NoClause }

KeptWatches ==
  SelectSeq(entry.watches,
            LAMBDA q : entry.atgc[q].reason \/ ~entry.atgc[q].garbage)

C2_ReasonFlagTransient ==
  pc \in {"idle", "protect", "limits", "stop"} =>
    \A a \in DOMAIN heap : ~heap[a].reason

C2_Witness ==
  /\ pc = "limits"
  /\ \E x \in ReasonVars :
       /\ vtab[x].reason # entry.vtab[x].reason
       /\ entry.atgc[entry.vtab[x].reason].reason
       /\ entry.atgc[entry.vtab[x].reason].garbage
       /\ ~heap[vtab[x].reason].reason

\* C3: a run of the policy over n candidates passes exactly n \div 2 of
\* them to mark_garbage, each once, adds n \div 2 to stats.reduced and leaves
\* the other candidates unmarked
C3_HalfMarked ==
  mu.active =>
    LET n == Cardinality(RunCandidates)
    IN  /\ Len(mu.marked) = n \div 2
        /\ Cardinality(RunMarked) = Len(mu.marked)
        /\ RunMarked \subseteq RunCandidates
        /\ stats.reduced = mu.reduced + (n \div 2)
        /\ \A a \in RunMarked : heap[a].garbage
        /\ \A a \in RunKept : ~heap[a].garbage

C3_Witness ==
  /\ mu.active
  /\ Cardinality(RunCandidates) = 2
  /\ Len(mu.marked) = 1
  /\ mu.reduced = 1

\* C4: the policy marks only candidates (redundant, not blocked, not a
\* reason, not garbage, analyzed present and <= lim.analyzed), never the
\* reason of a trail variable at level >= 1, and lim.analyzed is the value
\* stats.analyzed had when the previous reduce updated the limits
C4_OnlyCandidatesMarked ==
  /\ [](mu.active =>
          /\ mu.limit = lim.analyzed
          /\ \A a \in RunMarked :
               /\ a \in Range(clauses)
               /\ IsCandidate(mu.pre[a], lim.analyzed)
               /\ \A x \in ReasonVars : vtab[x].reason # a
          /\ \A a \in Range(clauses) \ RunMarked :
               heap[a].garbage = mu.pre[a].garbage)
  /\ [][lim'.analyzed # lim.analyzed =>
          pc = "limits" /\ lim'.analyzed = stats.analyzed]_vars
  /\ [](pc = "stop" => lim.analyzed = stats.analyzed)

C4_Witness ==
  /\ mu.active
  /\ stats.reductions = 2
  /\ lim.analyzed = 1
  /\ \E a \in RunMarked : mu.pre[a].analyzed = 1
  /\ \E a \in RunKept : TRUE

\* C5: under reduceglue no marked candidate has a smaller glue than an
\* unmarked one, and with equal glue no marked candidate has a later
\* analyzed time stamp than an unmarked one
C5_GlueOrder ==
  mu.active /\ opts.reduceglue =>
    \A m \in RunMarked : \A u \in RunKept :
      /\ ~(mu.pre[m].glue < mu.pre[u].glue)
      /\ mu.pre[m].glue = mu.pre[u].glue =>
           ~(mu.pre[m].analyzed > mu.pre[u].analyzed)

C5_Witness ==
  /\ mu.active
  /\ opts.reduceglue
  /\ \E m \in RunMarked : \E u \in RunKept :
       /\ mu.pre[m].glue > mu.pre[u].glue
       /\ mu.pre[m].analyzed > mu.pre[u].analyzed

EntryProtected(a) ==
  \E x \in Vars : /\ \E i \in 1 .. Len(trail) : Abs(trail[i]) = x
                  /\ entry.vtab[x].level >= 1
                  /\ entry.vtab[x].reason = a

\* the running reduce () found nothing to do: on entry no clause of the
\* registry was garbage, satisfied at level 0 or a candidate
NothingToDo ==
  /\ entry.active
  /\ \A a \in Range(entry.clauses) :
       LET c == entry.heap[a]
       IN  /\ ~c.garbage
           /\ \A k \in 1 .. c.size : ~fixed_true(c.lits[k])
           /\ ~(IsCandidate(c, entry.lim.analyzed) /\ ~EntryProtected(a))

\* what such a reduce () leaves alone and what it updates, as C13 and its
\* amendment agree: the clauses and their flags, the registry order, the
\* counter of reduced clauses; the scheduler is updated
NoOpButScheduler ==
  /\ Len(clauses) = Len(entry.clauses)
  /\ \A k \in 1 .. Len(clauses) :
       /\ clauses[k] \in DOMAIN heap
       /\ heap[clauses[k]] = entry.heap[entry.clauses[k]]
  /\ stats.reduced = entry.stats.reduced
  /\ inc.reduce = entry.inc.reduce + entry.inc.redinc
  /\ inc.redinc = IF entry.inc.redinc > 1 THEN entry.inc.redinc - 1
                  ELSE entry.inc.redinc
  /\ lim.reduce = stats.conflicts + inc.reduce
  /\ lim.analyzed = stats.analyzed
  /\ lim.conflicts_at_last_reduce = stats.conflicts

\* C13 as claimed: a reduce () that finds no candidate, no satisfied and no
\* garbage clause changes no clause flag, leaves the registry, the reduced
\* counter and the published lim.keptsize / lim.keptglue unchanged, and
\* still updates the scheduler limits
C13_NoOpKeepsKeptProfile ==
  pc = "stop" /\ NothingToDo =>
    /\ NoOpButScheduler
    /\ lim.keptsize = entry.lim.keptsize
    /\ lim.keptglue = entry.lim.keptglue

\* C13 as amended: the same, except that lim.keptsize and lim.keptglue are
\* reset to 0 whatever the previous epoch published
C13_NoOpResetsKeptProfile ==
  pc = "stop" /\ NothingToDo =>
    /\ NoOpButScheduler
    /\ lim.keptsize = 0
    /\ lim.keptglue = 0

C13_Witness ==
  /\ pc = "stop"
  /\ NothingToDo
  /\ Len(clauses) = 2
  /\ entry.lim.keptsize > 0
  /\ entry.lim.keptglue > 0
  /\ lim.keptsize = 0

\* the orders std::sort could have given the stack of the observed run, and
\* the sets of clauses the run would then have marked
RunOutcomes == sort_stack(mu.pre, collect_stack(mu.pre))

RunMarkedSets == { Range(SubSeq(s, 1, target_of(s))) : s \in RunOutcomes }

\* the sort key of clause c in the ordering mode of the run
SortKey(c) == IF opts.reduceglue THEN <<c.glue, c.analyzed>> ELSE <<c.analyzed>>

KeysOf(s) == [k \in 1 .. Len(s) |-> SortKey(mu.pre[s[k]])]

\* two candidates of the observed run tie on the sort key across the cut
TieAcrossCut ==
  LET t == target_of(mu.stack)
  IN  /\ 1 <= t
      /\ t < Len(mu.stack)
      /\ SortKey(mu.pre[mu.stack[t]]) = SortKey(mu.pre[mu.stack[t + 1]])

\* C14 as claimed: the set of clauses a run of the policy marks is uniquely
\* determined by the candidates, their glue and their time stamps, in both
\* ordering modes, ties on the sort key across the cut included
C14_MarkedSetUnique ==
  mu.active => RunMarkedSets = {RunMarked}

\* C14 as amended: the sequence of sort keys of the sorted stack, hence the
\* keys of the marked clauses, is uniquely determined; the set of marked
\* clauses is uniquely determined when no two candidates tie on the sort key
\* across the cut
C14_MarkedKeysUnique ==
  mu.active =>
    /\ mu.stack \in RunOutcomes
    /\ \A s \in RunOutcomes : KeysOf(s) = KeysOf(mu.stack)
    /\ ~TieAcrossCut => RunMarkedSets = {RunMarked}

C14_Witness ==
  /\ mu.active
  /\ opts.reduceglue
  /\ TieAcrossCut
  /\ Cardinality(RunMarkedSets) = 2

\* the successive positions of a reduce epoch
PhaseOrder ==
  { <<"idle", "protect">>, <<"protect", "satisfied">>,
    <<"satisfied", "useless">>, <<"useless", "collect">>,
    <<"collect", "unprotect">>, <<"unprotect", "limits">>,
    <<"limits", "stop">>, <<"stop", "idle">> }

\* C15: every step of a reduce epoch moves to the next phase, in the order
\* protect, mark satisfied, mark useless, collect, unprotect, update limits,
\* and does the work of its phase: the reasons at level >= 1 are flagged
\* before anything is marked or collected, clauses are freed or dropped from
\* the registry by the collection only, the reasons are still flagged when
\* the collection has finished and unflagged by the next step, and the
\* scheduler limits change in the last phase only
C15_PhaseOrder ==
  [][/\ pc' # pc => <<pc, pc'>> \in PhaseOrder
     /\ pc # "idle" => pc' # pc
     /\ pc = "protect" =>
          \A x \in ReasonVars : heap'[vtab[x].reason].reason
     /\ pc = "satisfied" =>
          \A a \in Range(clauses) :
            (\E k \in 1 .. heap[a].size : fixed_true(heap[a].lits[k]))
              => heap'[a].garbage
     /\ pc = "useless" =>
          /\ mu'.active
          /\ \A a \in Range(mu'.marked) : heap'[a].garbage
     /\ (\/ ~(DOMAIN heap \subseteq DOMAIN heap')
         \/ Len(clauses') < Len(clauses)
         \/ \E a \in DOMAIN heap \cap DOMAIN heap' :
              heap[a].reason /\ ~heap'[a].reason) =>
          pc \in {"collect", "unprotect"}
     /\ pc = "collect" =>
          /\ \A x \in ReasonVars : heap[vtab[x].reason].reason
          /\ \A x \in ReasonVars :
               /\ vtab'[x].reason \in DOMAIN heap'
               /\ heap'[vtab'[x].reason].reason
          /\ \A a \in DOMAIN heap' :
               /\ ~heap'[a].moved
               /\ heap'[a].garbage => heap'[a].reason
     /\ pc = "unprotect" =>
          /\ DOMAIN heap' = DOMAIN heap
          /\ clauses' = clauses
          /\ \A a \in DOMAIN heap' : ~heap'[a].reason
     /\ pc # "limits" =>
          /\ inc' = inc
          /\ lim'.reduce = lim.reduce
          /\ lim'.analyzed = lim.analyzed
          /\ lim'.conflicts_at_last_reduce = lim.conflicts_at_last_reduce
     /\ pc = "limits" =>
          /\ inc'.reduce = inc.reduce + inc.redinc
          /\ lim'.reduce = stats.conflicts + inc'.reduce
          /\ lim'.analyzed = stats.analyzed
          /\ lim'.conflicts_at_last_reduce = stats.conflicts
          /\ heap' = heap
    ]_vars

C15_Witness ==
  /\ pc = "stop"
  /\ stats.reductions = 2
  /\ Len(clauses) < Len(entry.clauses)
  /\ lim.reduce > entry.lim.reduce
  /\ \E x \in ReasonVars :
       /\ entry.heap[entry.vtab[x].reason].garbage
       /\ vtab[x].reason \in Range(clauses)
       /\ ~heap[vtab[x].reason].reason

\* the registry on entry without the clauses that were garbage at the
\* collection and not the reason of a trail variable at level >= 1
KeptClauses ==
  SelectSeq(entry.clauses,
            LAMBDA a : ~(entry.atgc[a].garbage /\ ~EntryProtected(a)))

\* C16: when the collection of an epoch has run, the reason flag was set on
\* exactly the reasons of trail variables at level >= 1, the clauses freed
\* and dropped from the registry are exactly those that were garbage and not
\* flagged, so a reason at level >= 1 survives with its literals even when
\* garbage, and a garbage clause that is the reason of a level 0 variable only,
\* or of none, is collected
C16_ReasonsSurvive ==
  pc = "unprotect" =>
    /\ \A a \in Range(entry.clauses) :
         entry.atgc[a].reason = EntryProtected(a)
    /\ Len(clauses) = Len(KeptClauses)
    /\ \A k \in 1 .. Len(clauses) :
         /\ clauses[k] \in DOMAIN heap
         /\ SameLits(heap[clauses[k]], entry.atgc[KeptClauses[k]])
         /\ heap[clauses[k]].garbage = entry.atgc[KeptClauses[k]].garbage
    /\ \A a \in Range(entry.clauses) : a \notin DOMAIN heap
    /\ DOMAIN heap = Range(clauses)
    /\ \A x \in ReasonVars :
         /\ vtab[x].reason \in Range(clauses)
         /\ SameLits(heap[vtab[x].reason], entry.heap[entry.vtab[x].reason])

C16_Witness ==
  /\ pc = "unprotect"
  /\ Len(entry.clauses) = 2
  /\ Len(clauses) = 1
  /\ \A a \in Range(entry.clauses) : entry.heap[a].garbage
  /\ \E x \in ReasonVars : heap[vtab[x].reason].garbage

\* a garbage clause that is the reason of a level 0 variable was collected
C16_LevelZeroCollected ==
  /\ pc = "unprotect"
  /\ \E x \in Vars :
       /\ \E i \in 1 .. Len(trail) : Abs(trail[i]) = x
       /\ vtab[x].level = 0
       /\ entry.vtab[x].reason \in Range(entry.clauses)
       /\ entry.heap[entry.vtab[x].reason].garbage
       /\ Len(entry.clauses) = 1
       /\ Len(clauses) = 0

\* C17: without reduceglue no marked candidate of a run has a later analyzed
\* time stamp than an unmarked one, and a clause whose time stamp is above
\* lim.analyzed is not marked by the run; unless it was garbage or satisfied
\* already, it is not garbage at the collection and stays in the registry
C17_OldestMarked ==
  /\ mu.active /\ ~opts.reduceglue =>
       /\ \A m \in RunMarked : \A u \in RunKept :
            mu.pre[m].analyzed <= mu.pre[u].analyzed
       /\ \A a \in Range(clauses) :
            mu.pre[a].have_analyzed /\ mu.pre[a].analyzed > lim.analyzed =>
              /\ a \notin RunMarked
              /\ heap[a].garbage = mu.pre[a].garbage
  /\ pc = "unprotect" /\ ~opts.reduceglue =>
       \A a \in Range(entry.clauses) :
         (/\ entry.heap[a].have_analyzed
          /\ entry.heap[a].analyzed > entry.lim.analyzed
          /\ ~entry.heap[a].garbage
          /\ \A k \in 1 .. entry.heap[a].size :
               ~fixed_true(entry.heap[a].lits[k])) =>
           /\ ~entry.atgc[a].garbage
           /\ a \in Range(KeptClauses)
           /\ Len(clauses) = Len(KeptClauses)

C17_Witness ==
  /\ mu.active
  /\ ~opts.reduceglue
  /\ \E m \in RunMarked : \E u \in RunKept :
       /\ mu.pre[m].analyzed < mu.pre[u].analyzed
       /\ mu.pre[m].glue < mu.pre[u].glue

\* a run that passed over a clause younger than lim.analyzed
C17_YoungSurvives ==
  /\ mu.active
  /\ ~opts.reduceglue
  /\ RunCandidates # {}
  /\ \E a \in Range(clauses) :
       /\ mu.pre[a].have_analyzed
       /\ mu.pre[a].analyzed > lim.analyzed
       /\ ~heap[a].garbage

(***************************************************************************)
(* The clause invariants (SpecLife).                                       *)
(***************************************************************************)

\* C11: at every public entry and exit (outside reduce (), on its entry and
\* on its return), after any sequence of new_clause, shrinking with the
\* fix-up, mark_garbage and reduce (), every clause of the registry is
\* allocated, has size >= 2, 0 <= glue <= min (size, MAX_GLUE) and is not moved
C11_ClauseInvariants ==
  pc \in {"idle", "protect", "stop"} =>
    \A a \in Range(clauses) :
      /\ a \in DOMAIN heap
      /\ heap[a].size >= 2
      /\ heap[a].size = Len(heap[a].lits)
      /\ 0 <= heap[a].glue
      /\ heap[a].glue <= heap[a].size
      /\ heap[a].glue <= MAX_GLUE
      /\ ~heap[a].moved

C11_Witness ==
  /\ pc = "stop"
  /\ \E a \in Range(clauses) :
       /\ a \notin DOMAIN entry.heap
       /\ heap[a].have_pos
       /\ heap[a].size = 2
       /\ heap[a].glue = 2
       /\ heap[a].garbage

(***************************************************************************)
(* The clause layout (SpecLayout).                                         *)
(***************************************************************************)

\* the sizes of the optional fields absent from the clause uc.in
AbsentSizes ==
  IF uc.in.have_pos /\ uc.in.have_analyzed THEN 0
  ELSE IF uc.in.have_analyzed THEN SizeofPos
  ELSE IF uc.in.have_pos THEN SizeofAnalyzed
  ELSE SizeofPos + SizeofAnalyzed

\* C12 as claimed: offset is the sum of the sizes of the absent optional
\* fields, bytes is the header size plus (size - 2) literals minus offset, the
\* raw allocation starts at the handle minus offset, and a binary clause
\* with neither field occupies the header minus the two field sizes
C12_StartBelowHandle ==
  uc.done =>
    /\ uc.offset = AbsentSizes
    /\ uc.bytes = SizeofClause + (uc.in.size - 2) * SizeofInt - uc.offset
    /\ uc.start = uc.this - uc.offset
    /\ uc.in.size = 2 /\ ~uc.in.have_pos /\ ~uc.in.have_analyzed =>
         uc.bytes = SizeofClause - SizeofAnalyzed - SizeofPos

\* C12 as amended: the same offset and bytes, but the raw allocation starts
\* at the handle plus offset (the handle lies offset bytes before the storage,
\* where the absent fields would be), so the storage ends at the handle plus
\* the header size plus (size - 2) literals
C12_Layout ==
  uc.done =>
    /\ uc.offset = AbsentSizes
    /\ uc.bytes = SizeofClause + (uc.in.size - 2) * SizeofInt - uc.offset
    /\ uc.start = uc.this + uc.offset
    /\ uc.start + uc.bytes =
         uc.this + SizeofClause + (uc.in.size - 2) * SizeofInt
    /\ uc.in.size = 2 /\ ~uc.in.have_pos /\ ~uc.in.have_analyzed =>
         uc.bytes = SizeofClause - SizeofAnalyzed - SizeofPos

C12_Witness ==
  /\ uc.done
  /\ uc.in.size = 2
  /\ ~uc.in.have_pos
  /\ ~uc.in.have_analyzed
  /\ uc.offset = 12
  /\ uc.bytes = 28
  /\ uc.start = uc.this + 12

\* C18: no run of the policy calls the accessor analyzed () on a clause
\* without the field: its assertion has never failed, the clauses read in
\* the candidate test and in the comparators all have have.analyzed, and so
\* has every entry of the stack, whatever else is in the registry
C18_AnalyzedPresentWhenRead ==
  /\ "analyzed" \notin failed
  /\ mu.active =>
       /\ \A a \in mu.reads : mu.pre[a].have_analyzed
       /\ \A a \in Range(mu.stack) : mu.pre[a].have_analyzed
       /\ \A a \in Range(clauses) :
            ~mu.pre[a].have_analyzed =>
              /\ mu.pre[a].analyzed = Absent
              /\ a \notin RunMarked

C18_Witness ==
  /\ mu.active
  /\ Cardinality(mu.reads) = 1
  /\ mu.reads = Range(mu.stack)
  /\ \E a \in Range(clauses) :
       /\ mu.pre[a].redundant
       /\ ~mu.pre[a].have_analyzed
       /\ ~mu.pre[a].garbage

\* a run over a registry of clauses without the field only
C18_NothingRead ==
  /\ mu.active
  /\ mu.reads = {}
  /\ \E a \in Range(clauses) :
       mu.pre[a].redundant /\ ~mu.pre[a].have_analyzed
  /\ \E a \in Range(clauses) :
       ~mu.pre[a].redundant /\ mu.pre[a].size > 2

C19_EpochDistance ==
  opts.reduceinit >= 1 /\ opts.reduceinc >= 1 =>
    /\ pc = "stop" => ~(opts.reduce /\ stats.conflicts >= lim.reduce)
    /\ (/\ pc \in {"idle", "stop"}
        /\ EpochsDone >= 1
        /\ stats.conflicts < lim.conflicts_at_last_reduce + inc.reduce) =>
         ~(opts.reduce /\ stats.conflicts >= lim.reduce)
    /\ pc = "stop" /\ EpochsDone >= 2 => lim.reduce > entry.lim.reduce
    /\ EpochsDone >= 1 =>
         /\ lim.conflicts_at_last_reduce < lim.reduce
         /\ lim.conflicts_at_last_reduce <= stats.conflicts

C19_Witness ==
  /\ pc = "idle"
  /\ opts.reduce
  /\ opts.reduceinit >= 1
  /\ opts.reduceinc >= 1
  /\ stats.reductions = 2
  /\ ret.tick
  /\ ~ret.value
  /\ stats.conflicts > lim.conflicts_at_last_reduce
  /\ stats.conflicts = lim.conflicts_at_last_reduce + inc.reduce - 1

====
